---------------------------- MODULE Spec2Model ----------------------------
(***************************************************************************)
(* Model of sanitize_filenames_recursively_here.py.                        *)
(*                                                                         *)
(* A filename is a sequence of Unicode code points (naturals).  sanitize   *)
(* is modelled statement by statement as operators on such sequences; the  *)
(* walker (sanitize_recursively / sanitize_recursively_cold) is modelled   *)
(* as a state machine over a small directory tree.                         *)
(*                                                                         *)
(* Two specifications:                                                     *)
(*   Spec          the program as run: prompt, traversal, renames, report  *)
(*   SpecSanitize  sanitize applied (once, then to its own result) to      *)
(*                 names drawn from bounded sets                           *)
(***************************************************************************)
EXTENDS Integers, Sequences, FiniteSets

VARIABLES
  \* --- process-wide state
  exceptions,   \* the global list `exceptions` (line 52)
  \* --- sanitize applied to drawn inputs (SpecSanitize)
  phase,        \* "idle" | "drawn" | "once" | "twice"
  name,         \* the filename argument
  root,         \* the root argument
  out,          \* sanitize(name, root)
  out2,         \* sanitize(out, root)
  \* --- the program run (Spec)
  pc,           \* "off" | "prompt" | "walk" | "done" | "halted" | "exit"
  mode,         \* "none" | "apply" | "cold"
  fs0,          \* the tree when the run starts: directory -> set of file names
  fs,           \* the tree now
  dirs,         \* directories os.walk has still to yield
  cur,          \* the directory being processed (`root` of the loop)
  files,        \* entries of cur's listing not yet processed
  visited,      \* <<root, entry>> of every entry processed so far
  reported,     \* <<root, entry, sanitized>> of every change printed
  renames,      \* every os.rename call: [root, src, dst, outcome]
  errors,       \* number of "Filename is too long" messages printed
  printed       \* what get_exceptions printed: <<>> before it ran, else <<list>>

vars == <<exceptions, phase, name, root, out, out2, pc, mode, fs0, fs, dirs,
          cur, files, visited, reported, renames, errors, printed>>

sanVars == <<phase, name, root, out, out2>>
runVars == <<pc, mode, fs0, fs, dirs, cur, files, visited, reported, renames,
             errors, printed>>

---------------------------------------------------------------------------
(* Bounds of the model. *)

\* longest name over ShortAlphabet that is drawn
MaxShort == 3
\* longest run of one code point used to build the long names
MaxRun == 600
\* most files a directory of the modelled tree holds
MaxFiles == 2

---------------------------------------------------------------------------
(* Code points. *)

\* "." and " ", the characters of rstrip(". ")
dot == 46
space == 32
\* the length limit of a filename and of an extension
MaxNameLen == 255
MaxExtLen == 254
\* the highest control code point that is removed
MaxControl == 31
\* errno of "File name too long"
ENAMETOOLONG == 36

blacklist == {92, 47, 58, 42, 63, 34, 60, 62, 124, 0}

\* Str of the names of the reserved list, as code points.
reserved ==
  { <<67,79,78>>, <<80,82,78>>, <<65,85,88>>, <<78,85,76>> }
  \cup { <<67,79,77,48 + d>> : d \in 1..9 }
  \cup { <<76,80,84,48 + d>> : d \in 1..9 }
  \cup { <<84,104,117,109,98,115,46,100,98,58,101,110,99,114,121,112,116,
           97,98,108,101>> }

\* The code points str.isspace() holds of: what str.strip() removes.
Whitespace ==
  (9..13) \cup (28..32) \cup {133, 160, 5760} \cup (8192..8202)
  \cup {8232, 8233, 8239, 8287, 12288}

---------------------------------------------------------------------------
(* Sequence helpers (Python's slices and searches). *)

Min(a, b) == IF a < b THEN a ELSE b
Max(a, b) == IF a > b THEN a ELSE b

\* s[:n] for any integer n (a negative n counts from the end)
SliceTo(s, n) ==
  IF n >= 0 THEN SubSeq(s, 1, Min(n, Len(s)))
  ELSE SubSeq(s, 1, Max(Len(s) + n, 0))

\* s[n:] for n >= 0
SliceFrom(s, n) == SubSeq(s, n + 1, Len(s))

\* The last index i in lo..hi with (s[i] \in chars) = member, or 0.
RECURSIVE LastIdx(_, _, _, _, _)
LastIdx(s, chars, member, lo, hi) ==
  IF lo > hi THEN 0
  ELSE IF lo = hi THEN (IF (s[lo] \in chars) = member THEN lo ELSE 0)
  ELSE LET mid == (lo + hi) \div 2
           r == LastIdx(s, chars, member, mid + 1, hi)
       IN IF r # 0 THEN r ELSE LastIdx(s, chars, member, lo, mid)

\* The first index i in lo..hi with (s[i] \in chars) = member, or 0.
RECURSIVE FirstIdx(_, _, _, _, _)
FirstIdx(s, chars, member, lo, hi) ==
  IF lo > hi THEN 0
  ELSE IF lo = hi THEN (IF (s[lo] \in chars) = member THEN lo ELSE 0)
  ELSE LET mid == (lo + hi) \div 2
           l == FirstIdx(s, chars, member, lo, mid)
       IN IF l # 0 THEN l ELSE FirstIdx(s, chars, member, mid + 1, hi)

\* str.rstrip(chars)
RStrip(s, chars) == SubSeq(s, 1, LastIdx(s, chars, FALSE, 1, Len(s)))

\* str.strip(): leading and trailing whitespace removed
Strip(s) ==
  LET f == FirstIdx(s, Whitespace, FALSE, 1, Len(s))
  IN IF f = 0 THEN <<>>
     ELSE SubSeq(s, f, LastIdx(s, Whitespace, FALSE, 1, Len(s)))

\* s.endswith(t), t.startswith-of-s
EndsWith(s, t) ==
  Len(t) <= Len(s) /\ SubSeq(s, Len(s) - Len(t) + 1, Len(s)) = t
StartsWith(s, t) == Len(t) <= Len(s) /\ SubSeq(s, 1, Len(t)) = t

---------------------------------------------------------------------------
(* sanitize, statement by statement. *)

\* line 58: the characters of the blacklist removed
NotBlacklisted(c) == c \notin blacklist
RemoveBlacklisted(s) == SelectSeq(s, NotBlacklisted)

\* line 60: the characters below code point 32 removed
AboveControl(c) == MaxControl < c
RemoveControl(s) == SelectSeq(s, AboveControl)

\* unicodedata.normalize("NFKD", c) of one code point: the compatibility
\* decomposition, given for the code points the model draws names from
\* (every other code point used here has none).
Decomposition(c) ==
  CASE c = 65295 -> <<47>>          \* FULLWIDTH SOLIDUS -> "/"
    [] c = 65306 -> <<58>>          \* FULLWIDTH COLON -> ":"
    [] c = 160   -> <<32>>          \* NO-BREAK SPACE -> " "
    [] c = 8228  -> <<46>>          \* ONE DOT LEADER -> "."
    [] c = 1118  -> <<1091, 774>>   \* CYRILLIC SHORT U -> U + COMBINING BREVE
    [] OTHER     -> <<c>>

\* line 61: unicodedata.normalize("NFKD", filename)
RECURSIVE NFKDRange(_, _, _)
NFKDRange(s, lo, hi) ==
  IF lo > hi THEN <<>>
  ELSE IF lo = hi THEN Decomposition(s[lo])
  ELSE LET mid == (lo + hi) \div 2
       IN NFKDRange(s, lo, mid) \o NFKDRange(s, mid + 1, hi)
NFKD(s) == NFKDRange(s, 1, Len(s))

\* lines 64-65: all([x == "." ...]) holds of the empty string too
AllDots(s) == \A i \in 1..Len(s) : s[i] = dot
PrefixDots(s) == IF AllDots(s) THEN <<95, 95>> \o s ELSE s

\* lines 66-67 (and 75-76, 84-85)
EmptyToUnderscores(s) == IF Len(s) = 0 THEN <<95, 95>> ELSE s

\* lines 58-67: the name before the length check
Cleaned(filename) ==
  EmptyToUnderscores(PrefixDots(Strip(RStrip(
    NFKD(RemoveControl(RemoveBlacklisted(filename))), {dot, space}))))

\* line 69: re.split(r"/|\\", filename)[-1], as the index it starts at
LastSegmentStart(s) == LastIdx(s, {47, 92}, TRUE, 1, Len(s)) + 1

\* lines 69-74: "." + parts.pop() when the last segment holds a ".", else ""
Ext(s) ==
  LET d == LastIdx(s, {dot}, TRUE, LastSegmentStart(s), Len(s))
  IN IF d # 0 THEN SubSeq(s, d, Len(s)) ELSE <<>>

\* lines 72, 75-76: filename[:-len(ext)] when there is an extension
Base(s) ==
  EmptyToUnderscores(IF Ext(s) # <<>> THEN SliceTo(s, 0 - Len(Ext(s))) ELSE s)

\* lines 77-78: an extension of more than 254 characters is cut
CutExt(ext) == IF Len(ext) > MaxExtLen THEN SliceFrom(ext, MaxExtLen) ELSE ext

\* line 79
MaxL(ext) == MaxNameLen - Len(ext)

\* line 80: filename[:maxl]
CutBase(base, ext) == SliceTo(base, MaxL(ext))

\* lines 69-85: the branch taken when the name is longer than 255
Truncated(s) ==
  LET ext == CutExt(Ext(s))
  IN EmptyToUnderscores(RStrip(CutBase(Base(s), ext) \o ext, {dot, space}))

\* A reserved-name test that ignores case (what a Windows-style comparison
\* would do).
UpperCase(s) == [i \in 1..Len(s) |-> IF s[i] \in 97..122 THEN s[i] - 32 ELSE s[i]]
IsReservedIgnoringCase(filename) == UpperCase(filename) \in reserved

\* line 55
IsReserved(filename) == filename \in reserved

\* lines 57-85: the else branch
Transform(filename) ==
  LET s == Cleaned(filename)
  IN IF Len(s) > MaxNameLen THEN Truncated(s) ELSE s

\* lines 54-86: the value returned
Sanitize(filename) ==
  IF IsReserved(filename) THEN filename ELSE Transform(filename)

\* os.path.join(root, filename) on POSIX
Join(r, f) ==
  IF Len(f) > 0 /\ f[1] = 47 THEN f
  ELSE IF Len(r) = 0 \/ r[Len(r)] = 47 THEN r \o f
  ELSE r \o <<47>> \o f

\* lines 55-56: the exceptions list after the call
Record(excs, filename, r) ==
  IF IsReserved(filename) THEN Append(excs, Join(r, filename)) ELSE excs

---------------------------------------------------------------------------
(* The names sanitize is applied to. *)

Run(c, n) == [i \in 1..n |-> c]

\* "X", ".", " ", "/", BEL, FULLWIDTH SOLIDUS, NEXT LINE (whitespace that is
\* not " "), CYRILLIC SHORT U
ShortAlphabet == {88, dot, space, 47, 7, 65295, 133, 1118}
ShortNames == UNION { [1..n -> ShortAlphabet] : n \in 0..MaxShort }

\* The reserved names and their near misses: a trailing ".", a blacklisted
\* ":" inside, a leading " ", the first letter in lower case.
ReservedVariants ==
  UNION { { r, r \o <<dot>>, <<r[1], 58>> \o Tail(r), <<space>> \o r,
            <<r[1] + 32>> \o Tail(r) } : r \in reserved }

\* Names around the length limits: a run, a separator, a run, an ending.
RunLens == {1, 100, 254, 300, 509, 510, MaxRun}
LongNames ==
  { Run(c, n1) \o mid \o Run(88, n2) \o tail :
      c \in {88, dot}, n1 \in RunLens,
      mid \in { <<>>, <<dot>>, <<65295>>, <<133>> },
      n2 \in RunLens \cup {0},
      tail \in { <<>>, <<dot>>, <<133>>, <<dot, 133>>, <<dot, 112, 100, 102>> } }

\* The arguments of the test functions run when the module is loaded.
X(n) == Run(88, n)
TestNames ==
  { <<65,47,66,47,67>>, <<65,42,67,46,100>>,                  \* A/B/C  A*C.d
    <<100,101,102,46>>, <<100,101,102,46,103,104,105>>,       \* def.  def.ghi
    X(1000) \o <<dot>>, X(300),
    X(100) \o <<dot>> \o X(100) \o <<dot>> \o X(100),
    X(300) \o <<dot>> \o X(300) \o <<dot>> \o X(300),
    Run(dot, 300) \o <<dot, 116, 120, 116>>,                  \* "."*300 + ".txt"
    <<1118>>,
    X(1000) \o <<dot, 112, 100, 102>>, X(1000),
    X(100) \o <<dot>> \o X(100) \o <<dot, 112, 100, 102>>,
    X(100) \o <<dot>> \o X(400),
    X(100) \o <<dot>> \o X(400) \o <<dot, 112, 100, 102>> }

Names == ShortNames \cup ReservedVariants \cup LongNames \cup TestNames

\* "." and "./d", the directories of the modelled tree
Roots == { <<dot>>, <<dot, 47, 100>> }

---------------------------------------------------------------------------
(* SpecSanitize: sanitize applied to a drawn name, then to its own result. *)

RunIdle ==
  /\ pc = "off" /\ mode = "none"
  /\ fs0 = [d \in Roots |-> {}] /\ fs = fs0
  /\ dirs = <<>> /\ cur = <<>> /\ files = {}
  /\ visited = <<>> /\ reported = <<>> /\ renames = <<>>
  /\ errors = 0 /\ printed = <<>>

InitSanitize ==
  /\ exceptions = <<>>
  /\ phase = "drawn"
  /\ name \in Names
  /\ root \in Roots
  /\ out = <<>> /\ out2 = <<>>
  /\ RunIdle

\* sanitized = sanitize(name, root)
CallSanitize ==
  /\ phase = "drawn"
  /\ out' = Sanitize(name)
  /\ exceptions' = Record(exceptions, name, root)
  /\ phase' = "once"
  /\ UNCHANGED <<name, root, out2>>
  /\ UNCHANGED runVars

\* sanitize(sanitized, root): a second run over the renamed file
CallAgain ==
  /\ phase = "once"
  /\ out2' = Sanitize(out)
  /\ exceptions' = Record(exceptions, out, root)
  /\ phase' = "twice"
  /\ UNCHANGED <<name, root, out>>
  /\ UNCHANGED runVars

NextSanitize == CallSanitize \/ CallAgain

SpecSanitize == InitSanitize /\ [][NextSanitize]_vars

---------------------------------------------------------------------------
(* Spec: the program as run from the prompt. *)

\* "a", "a?", "a*" (both become "a"), "NUL" (reserved), "b." (becomes "b")
WalkNames == { <<97>>, <<97, 63>>, <<97, 42>>, <<78, 85, 76>>, <<98, dot>> }

\* The trees the run starts from: "." and its subdirectory "./d".
Trees ==
  [Roots -> { S \in SUBSET WalkNames : Cardinality(S) <= MaxFiles }]

\* os.walk("."), top down: "." is yielded before "./d"
WalkOrder == << <<dot>>, <<dot, 47, 100>> >>

\* What os.rename can end with: 0 for success, else the errno of the OSError
\* (36 "File name too long", 13 "Permission denied" for every other error).
Errnos == {0, ENAMETOOLONG, 13}

SanIdle ==
  /\ phase = "idle" /\ name = <<>> /\ root = <<>> /\ out = <<>> /\ out2 = <<>>

\* Lines 153-157 have run the tests when the prompt appears: none of their
\* names is reserved, so the exceptions list is still empty.
Init ==
  /\ exceptions = <<>>
  /\ SanIdle
  /\ pc = "prompt" /\ mode = "none"
  /\ fs0 \in Trees /\ fs = fs0
  /\ dirs = <<>> /\ cur = <<>> /\ files = {}
  /\ visited = <<>> /\ reported = <<>> /\ renames = <<>>
  /\ errors = 0 /\ printed = <<>>

\* lines 222-226: the answer to the prompt selects the mode
Main ==
  /\ pc = "prompt"
  /\ \E inp \in {"Y", "y", "C", "c", "N", ""} :
       IF inp \in {"Y", "y"}
         THEN mode' = "apply" /\ pc' = "walk" /\ dirs' = WalkOrder
       ELSE IF inp \in {"C", "c"}
         THEN mode' = "cold" /\ pc' = "walk" /\ dirs' = WalkOrder
       ELSE mode' = "none" /\ pc' = "exit" /\ dirs' = dirs
  /\ UNCHANGED <<exceptions, fs0, fs, cur, files, visited, reported, renames,
                 errors, printed>>
  /\ UNCHANGED sanVars

\* lines 180, 205: os.walk yields the next directory with its listing
Walk ==
  /\ pc = "walk" /\ files = {} /\ dirs # <<>>
  /\ cur' = Head(dirs)
  /\ files' = fs[Head(dirs)]
  /\ dirs' = Tail(dirs)
  /\ UNCHANGED <<exceptions, pc, mode, fs0, fs, visited, reported, renames,
                 errors, printed>>
  /\ UNCHANGED sanVars

\* line 183: if entry != sanitized
Differs(entry, sanitized) == entry # sanitized

\* An except clause that raises every OSError again.
RaisesEvery(errno) == errno # 0

\* lines 193-198: an OSError other than errno 36 is raised again
Raises(errno) == errno # 0 /\ errno # ENAMETOOLONG

\* os.rename(src, dst) inside directory d
Renamed(tree, d, src, dst) ==
  [tree EXCEPT ![d] = (tree[d] \ {src}) \cup {dst}]

\* lines 181-198: one pass of the inner loop of sanitize_recursively
sanitize_recursively ==
  /\ pc = "walk" /\ mode = "apply"
  /\ \E entry \in files : \E errno \in Errnos :
       LET sanitized == Sanitize(entry) IN
       /\ exceptions' = Record(exceptions, entry, cur)
       /\ files' = files \ {entry}
       /\ visited' = Append(visited, <<cur, entry>>)
       /\ IF Differs(entry, sanitized)
            THEN /\ reported' = Append(reported, <<cur, entry, sanitized>>)
                 /\ renames' = Append(renames,
                      [dir |-> cur, src |-> entry, dst |-> sanitized,
                       errno |-> errno])
                 /\ fs' = IF errno = 0 THEN Renamed(fs, cur, entry, sanitized)
                          ELSE fs
                 /\ errors' = IF errno = ENAMETOOLONG THEN errors + 1
                              ELSE errors
                 /\ pc' = IF Raises(errno) THEN "halted" ELSE "walk"
            ELSE /\ errno = 0
                 /\ UNCHANGED <<reported, renames, fs, errors, pc>>
  /\ UNCHANGED <<mode, fs0, dirs, cur, printed>>
  /\ UNCHANGED sanVars

\* A cold loop that was left with the os.rename of the loop it was copied
\* from.
sanitize_recursively_cold_renaming ==
  /\ pc = "walk" /\ mode = "cold"
  /\ \E entry \in files :
       LET sanitized == Sanitize(entry) IN
       /\ exceptions' = Record(exceptions, entry, cur)
       /\ files' = files \ {entry}
       /\ visited' = Append(visited, <<cur, entry>>)
       /\ IF Differs(entry, sanitized)
            THEN /\ reported' = Append(reported, <<cur, entry, sanitized>>)
                 /\ fs' = Renamed(fs, cur, entry, sanitized)
            ELSE UNCHANGED <<reported, fs>>
  /\ UNCHANGED <<pc, mode, fs0, dirs, cur, renames, errors, printed>>
  /\ UNCHANGED sanVars

\* lines 206-212: one pass of the inner loop of sanitize_recursively_cold
sanitize_recursively_cold ==
  /\ pc = "walk" /\ mode = "cold"
  /\ \E entry \in files :
       LET sanitized == Sanitize(entry) IN
       /\ exceptions' = Record(exceptions, entry, cur)
       /\ files' = files \ {entry}
       /\ visited' = Append(visited, <<cur, entry>>)
       /\ IF Differs(entry, sanitized)
            THEN reported' = Append(reported, <<cur, entry, sanitized>>)
            ELSE UNCHANGED reported
  /\ UNCHANGED <<pc, mode, fs0, fs, dirs, cur, renames, errors, printed>>
  /\ UNCHANGED sanVars

\* lines 199, 213: get_exceptions() once the walk is over
get_exceptions ==
  /\ pc = "walk" /\ files = {} /\ dirs = <<>>
  /\ printed' = <<exceptions>>
  /\ pc' = "done"
  /\ UNCHANGED <<exceptions, mode, fs0, fs, dirs, cur, files, visited,
                 reported, renames, errors>>
  /\ UNCHANGED sanVars

Next ==
  \/ Main
  \/ Walk
  \/ sanitize_recursively
  \/ sanitize_recursively_cold
  \/ get_exceptions

Spec == Init /\ [][Next]_vars

Range(s) == { s[i] : i \in 1..Len(s) }

\* The shape of the state: the exceptions list and what the run has done.
TypeOK ==
  /\ exceptions \in Seq(Seq(Nat))
  /\ phase \in {"idle", "drawn", "once", "twice"}
  /\ name \in Seq(Nat) /\ root \in Seq(Nat)
  /\ out \in Seq(Nat) /\ out2 \in Seq(Nat)
  /\ pc \in {"off", "prompt", "walk", "done", "halted", "exit"}
  /\ mode \in {"none", "apply", "cold"}
  /\ fs0 \in Trees \cup {[d \in Roots |-> {}]}
  /\ \A d \in Roots : fs[d] \subseteq { Sanitize(e) : e \in WalkNames } \cup WalkNames
  /\ Range(dirs) \subseteq Roots /\ cur \in Roots \cup {<<>>}
  /\ files \subseteq WalkNames
  /\ Range(visited) \subseteq Roots \X WalkNames
  /\ \A i \in 1..Len(reported) : reported[i][3] = Sanitize(reported[i][2])
  /\ \A i \in 1..Len(renames) : renames[i].errno \in Errnos
  /\ errors \in Nat
  /\ printed \in {<<>>, <<exceptions>>}

---------------------------------------------------------------------------
(* Properties of sanitize, under SpecSanitize. *)

Returned == phase \in {"once", "twice"}
Unreserved == name \notin reserved

\* C1: for every name not in the reserved set, the name sanitize returns
\* has at most 255 code points, whatever the length of its extension.
C1_AtMost255 == Returned /\ Unreserved => Len(out) <= 255

\* C2: for every name not in the reserved set, the name sanitize returns
\* holds no blacklisted code point and no code point <= 31, also when the
\* input holds a code point that NFKD decomposes into a blacklisted one.
C2_NoForbiddenCodePoint ==
  Returned /\ Unreserved =>
    \A i \in 1..Len(out) :
      out[i] \notin {92, 47, 58, 42, 63, 34, 60, 62, 124, 0} /\ out[i] > 31

\* C3: for every name not in the reserved set, the name sanitize returns
\* ends neither in "." nor in " ".
C3_NoTrailingDotOrSpace ==
  Returned /\ Unreserved /\ Len(out) > 0 => out[Len(out)] \notin {46, 32}

\* C4: sanitize is idempotent: for every name not in the reserved set whose
\* sanitized name has at most 255 code points, sanitizing the sanitized
\* name returns it unchanged.
C4_Idempotent ==
  phase = "twice" /\ Unreserved /\ Len(out) <= 255 => out2 = out

\* C5, after one call: a reserved name is returned unchanged with one record
\* of root and name in the exceptions list; every other name (a reserved
\* name in another case, with a trailing ".", a leading " " or a
\* blacklisted character inside) is transformed and leaves the list empty.
C5_ReservedOnce ==
  phase = "once" =>
    IF name \in reserved
      THEN /\ out = name
           /\ exceptions = << root \o <<47>> \o name >>
      ELSE /\ exceptions = <<>>
           /\ out = Transform(name)
           /\ \A r \in { x \in reserved : 58 \notin Range(x) } :
                /\ name = r \o <<46>> => out = r
                /\ name = <<r[1], 58>> \o Tail(r) => out = r
                /\ name = <<32>> \o r => out = r
                /\ name = <<r[1] + 32>> \o Tail(r) => out = name

\* The record a call on n leaves in the exceptions list.
RecordOf(n) == IF n \in reserved THEN << root \o <<47>> \o n >> ELSE <<>>

\* C5, over two calls: each call on a reserved name appends one record, a
\* call on any other name appends none.
C5_RecordsTwice ==
  phase = "twice" => exceptions = RecordOf(name) \o RecordOf(out)

\* C5: sanitize treats a name as reserved exactly when the untransformed
\* name is, case-sensitively, in the reserved set; it then returns the name
\* unchanged and appends exactly one record of root and name; every other
\* name is transformed and the exceptions list is left unchanged.
C5_ReservedExactly == C5_ReservedOnce /\ C5_RecordsTwice

\* C5 witness: "NUL" was sanitized and recorded.
C5_Witness ==
  /\ phase = "once" /\ name = <<78, 85, 76>> /\ out = name
  /\ Len(exceptions) = 1

\* The extension of the name as it is after steps 1-7.
CleanExt == Ext(Cleaned(name))

\* C6: for every name not in the reserved set that is longer than 255 after
\* steps 1-7 and whose last segment has an extension of at most 254 code
\* points, sanitize returns a name of exactly 255 code points that ends
\* with the whole extension and starts with a prefix of what precedes it.
C6_ExtensionPreserved ==
  /\ Returned /\ Unreserved
  /\ Len(Cleaned(name)) > 255
  /\ CleanExt # <<>> /\ Len(CleanExt) <= 254
  => /\ Len(out) = 255
     /\ EndsWith(out, CleanExt)
     /\ StartsWith(Cleaned(name), SubSeq(out, 1, 255 - Len(CleanExt)))

\* C9: in the over-length path an extension of more than 254 code points is
\* cut to a suffix of itself of at most 254 code points, so at least one
\* code point is left for the base and the returned name is a non-empty
\* base followed by the retained extension.
C9_CutExtLeavesBase ==
  /\ Returned /\ Unreserved
  /\ Len(Cleaned(name)) > 255
  /\ Len(CleanExt) > 254
  => /\ Len(CutExt(CleanExt)) <= 254
     /\ EndsWith(CleanExt, CutExt(CleanExt))
     /\ 255 - Len(CutExt(CleanExt)) >= 1
     /\ EndsWith(out, CutExt(CleanExt))
     /\ Len(out) > Len(CutExt(CleanExt))

\* C10: for every name not in the reserved set, sanitize returns a name that
\* is not in the reserved set either.
C10_NeverReserved == Returned /\ Unreserved => out \notin reserved

---------------------------------------------------------------------------
(* Properties of the run, under Spec. *)

\* What a complete traversal of tree t visits, reports and records.
AllEntries(t) == { x \in Roots \X WalkNames : x[2] \in t[x[1]] }
Changes(t) ==
  { <<x[1], x[2], Sanitize(x[2])>> : x \in { y \in AllEntries(t) :
                                              Sanitize(y[2]) # y[2] } }
ReservedPaths(t) ==
  { x[1] \o <<47>> \o x[2] : x \in { y \in AllEntries(t) : y[2] \in reserved } }

\* seq lists exactly the elements of set, each once
Lists(seq, set) == Range(seq) = set /\ Len(seq) = Cardinality(set)

\* The run visited every file of the initial tree, printed every change
\* and printed every reserved name.
FullReport ==
  /\ Lists(visited, AllEntries(fs0))
  /\ Lists(reported, Changes(fs0))
  /\ Lists(exceptions, ReservedPaths(fs0))
  /\ printed = <<exceptions>>

\* The cold run changes nothing on disk.
ColdFrame == mode = "cold" => fs = fs0 /\ renames = <<>>

Processed == Len(visited') = Len(visited) + 1
Attempted == Len(renames') = Len(renames) + 1
LastEntry == visited'[Len(visited')][2]
LastErrno == renames'[Len(renames')].errno

\* What one pass of the apply loop does to the tree, the log and the run.
ApplyStep ==
  mode = "apply" /\ Processed =>
    /\ Attempted <=> Sanitize(LastEntry) # LastEntry
    /\ ~Attempted => UNCHANGED <<fs, pc, errors, reported>>
    /\ Attempted /\ LastErrno = 0 =>
         /\ pc' = "walk" /\ errors' = errors
         /\ fs'[cur] = (fs[cur] \ {LastEntry}) \cup {Sanitize(LastEntry)}
    /\ Attempted /\ LastErrno = 36 =>
         /\ fs' = fs /\ LastEntry \in fs'[cur]
         /\ errors' = errors + 1
         /\ pc' = "walk" /\ files' = files \ {LastEntry}
    /\ Attempted /\ LastErrno \notin {0, 36} =>
         /\ fs' = fs /\ errors' = errors
         /\ pc' = "halted"

\* How an apply run stands and ends.
ApplyEnds ==
  mode = "apply" =>
    /\ errors = Cardinality({ i \in 1..Len(renames) : renames[i].errno = 36 })
    /\ pc = "halted" =>
         /\ ~ENABLED Next
         /\ printed = <<>>
         /\ renames[Len(renames)].errno \notin {0, 36}
    /\ pc = "walk" =>
         \A i \in 1..Len(renames) : renames[i].errno \in {0, 36}
    /\ pc = "done" =>
         /\ Lists(visited, AllEntries(fs0))
         /\ printed = <<exceptions>>

\* C8: in apply mode a rename is attempted for a file exactly when its
\* sanitized name differs from its name.  When the rename fails with errno
\* 36 the file keeps its name, the failure is reported and the traversal
\* goes on to the remaining files and ends by reporting the exceptions;
\* when it fails with another error, the run halts: no later file is
\* visited or renamed and nothing more is printed.
C8_RenameOutcomes == []ApplyEnds /\ [][ApplyStep]_vars

\* C8 witness: an apply run ended after a rename that failed with errno 36
\* was followed by one that succeeded.
C8_Witness ==
  /\ mode = "apply" /\ pc = "done" /\ errors > 0
  /\ \E i, j \in 1..Len(renames) :
       i < j /\ renames[i].errno = 36 /\ renames[j].errno = 0

===========================================================================
